---- MODULE Spec2Model ----
(***************************************************************************)
(* Model of the account ledger of jairoandre/maggie (src/src/handler.rs):  *)
(* the POST /clientes/{id}/transacoes handler (post_transaction) and the   *)
(* GET /clientes/{id}/extrato handler (get_balance), running as concurrent *)
(* workers against one PostgreSQL store (tables accounts, transactions)    *)
(* at READ COMMITTED isolation with SELECT ... FOR UPDATE row locks.       *)
(***************************************************************************)
EXTENDS Integers, Sequences, FiniteSets, TLC

(***************************************************************************)
(* Bounds of the model.                                                    *)
(***************************************************************************)
\* Width in bits of the machine integer that stands for Rust's i64.
IntBits == 4
\* Number of POST requests received in one behaviour.
MaxPosts == 2

MinInt == -(2 ^ (IntBits - 1))
MaxInt == (2 ^ (IntBits - 1)) - 1

(***************************************************************************)
(* Machine integers (i64 scaled down to IntBits bits).                     *)
(***************************************************************************)
Overflows(x) == x < MinInt \/ x > MaxInt

\* Two's-complement wrapping of a mathematical integer.
Wrap(x) == ((x - MinInt) % (2 ^ IntBits)) + MinInt

(***************************************************************************)
(* Requests.                                                               *)
(***************************************************************************)
NoProc == "none"
Posters == {"p1", "p2"}
Readers == {"r1"}

\* Rows of table accounts (created out of band) and an id without a row.
KnownIds == {1, 2}
UnknownIds == {999}
Ids == KnownIds \cup UnknownIds

\* A String is the sequence of the UTF-8 byte lengths of its characters.
Ascii(n) == [i \in 1..n |-> 1]
Strings == { <<>>, Ascii(10), Ascii(11), <<1, 1, 1, 1, 1, 1, 1, 2, 2>> }
\* Option<String>: None is <<>>, Some(s) is <<s>>.
None == <<>>
Some(s) == <<s>>
Descricoes == {None} \cup {Some(s) : s \in Strings}
Tipos == {"c", "d", "x"}
Valores == {MinInt, -1, 0, 1, 2, MaxInt}

\* Payload, handler.rs 12-17
Payload == [valor : Valores, tipo : Tipos, descricao : Descricoes]

\* A request: the id of the path and the JSON body.
Requests == [id : Ids, payload : Payload]

\* Requests of every shape on one account with a row and on an id without.
InputRequests == [id : {1} \cup UnknownIds, payload : Payload]

\* The requests whose description is ten ASCII characters and whose tipo is
\* "c" or "d", with the amounts of everyday use and the largest one.
PlainRequests ==
    [id : Ids,
     payload : [valor : {1, 2, MaxInt}, tipo : {"c", "d"},
                descricao : {Some(Ascii(10))}]]

RECURSIVE SumSeq(_)
SumSeq(s) == IF s = <<>> THEN 0 ELSE Head(s) + SumSeq(Tail(s))

\* String::len(): the length in bytes.
StrLen(s) == SumSeq(s)
\* The number of characters.
CharCount(s) == Len(s)

\* handler.rs 139: descricao.is_empty() || descricao.len() > 10
DescricaoLimit == 10

\* The length test off by one: a description of 11 bytes passes.
DescricaoRejectedLax(d) == StrLen(d) = 0 \/ StrLen(d) > DescricaoLimit + 1
DescricaoRejected(d) == StrLen(d) = 0 \/ StrLen(d) > DescricaoLimit

\* The checks without the test of tipo: every tipo but "c" is taken as "d".
ValidateAnyTipo(payload) ==
    IF payload.descricao = None THEN "descricao nulo"
    ELSE IF DescricaoRejected(payload.descricao[1])
         THEN "descricao vazio ou maior que 10"
    ELSE "ok"

\* handler.rs 133-148: the checks made before the store is touched. The result
\* is the body of the 422 response, or "ok".
Validate(payload) ==
    IF payload.descricao = None THEN "descricao nulo"
    ELSE IF DescricaoRejected(payload.descricao[1])
         THEN "descricao vazio ou maior que 10"
    ELSE IF payload.tipo \notin {"c", "d"} THEN "Error"
    ELSE "ok"

\* handler.rs 142-144: the mathematical value of the signed amount.
SignedValor(payload) ==
    IF payload.tipo = "c" THEN payload.valor ELSE payload.valor * (-1)

\* handler.rs 168: saldo + valor in wrapping machine arithmetic.
NewSaldo(saldo, valor) == Wrap(saldo + valor)

\* A limit check that tolerates one unit beyond the credit limit.
LimitExceededLax(saldo, limite) == Wrap(saldo + limite) < -1

\* handler.rs 169: (saldo + limite) < 0 in wrapping machine arithmetic.
LimitExceeded(saldo, limite) == Wrap(saldo + limite) < 0

\* handler.rs 168-169: one of the two additions leaves the machine range.
CheckOverflows(read, valor, limite) ==
    \/ Overflows(read + valor)
    \/ Overflows(NewSaldo(read, valor) + limite)

(***************************************************************************)
(* State.                                                                  *)
(***************************************************************************)
VARIABLES
    overflowChecks, \* build profile: TRUE = arithmetic overflow panics,
                    \* FALSE = it wraps (Rust debug / release default)
    accounts,       \* committed rows of table accounts: id -> [balance, credit]
    transactions,   \* committed rows of table transactions, in insertion order
    rowLock,        \* FOR UPDATE lock of each accounts row: its holder
    pc,             \* position of each worker in its handler
    req,            \* post: id, payload and signed valor moved into web::block
    conta,          \* post: the row read at 153-161 and the new saldo of 168
    txw,            \* post: uncommitted writes of the open database transaction
    resp,           \* post: the HTTP response to the worker's last request
    rd,             \* get_balance: id and the account row read at 83-92
    extrato,        \* get_balance: the HTTP response to the last request
    clock,          \* the store's clock
    nposts,         \* number of POST requests received
    posted          \* per account: number and sum of the signed amounts of
                    \* the posts answered 200

store == <<accounts, transactions, rowLock>>
vars == <<overflowChecks, accounts, transactions, rowLock, pc, req, conta,
          txw, resp, rd, extrato, clock, nposts, posted>>

NoReq == [id |-> 0, payload |-> [valor |-> 0, tipo |-> "", descricao |-> None],
          descricao |-> <<>>, valor |-> 0]
\* A request that is answered before 149: nothing is moved into web::block.
Unhandled(id, payload) ==
    [id |-> id, payload |-> payload, descricao |-> <<>>, valor |-> 0]
NoConta == [found |-> FALSE, read |-> 0, limite |-> 0, saldo |-> 0]
NoTxw == [open |-> FALSE, balance |-> <<>>, rows |-> <<>>]
NoResp == [status |-> 0, err |-> "", saldo |-> 0, limite |-> 0]
NoRd == [id |-> 0, conta |-> <<>>]
NoExtrato == [status |-> 0, total |-> 0, limite |-> 0, ultimas_transacoes |-> <<>>]

\* Rows created out of band before the service starts.
InitAccounts ==
    (1 :> [balance |-> 0, credit |-> 2]) @@ (2 :> [balance |-> -1, credit |-> 1])

Init ==
    /\ overflowChecks \in BOOLEAN
    /\ accounts = InitAccounts
    /\ transactions = <<>>
    /\ rowLock = [a \in KnownIds |-> NoProc]
    /\ pc = [w \in Posters \cup Readers |-> "idle"]
    /\ req = [p \in Posters |-> NoReq]
    /\ conta = [p \in Posters |-> NoConta]
    /\ txw = [p \in Posters |-> NoTxw]
    /\ resp = [p \in Posters |-> NoResp]
    /\ rd = [r \in Readers |-> NoRd]
    /\ extrato = [r \in Readers |-> NoExtrato]
    /\ clock = 0
    /\ nposts = 0
    /\ posted = [a \in KnownIds |-> [n |-> 0, sum |-> 0]]

\* A panic, named by the line of handler.rs that panics.
PanicAt ==
    [begin |-> "panic152", select |-> "panic155", update |-> "panic173",
     insert |-> "panic175", commit |-> "panic176"]
Panics == {"panic144", "panic168"} \cup {PanicAt[l] : l \in DOMAIN PanicAt}

\* handler.rs 181-187 (and 115-121): the status of an error of web::block.
ErrStatus(err) == IF err = "404" THEN 404 ELSE 422

ErrResp(status, err) == [status |-> status, err |-> err, saldo |-> 0, limite |-> 0]
\* handler.rs 177, 180: 200 with the JSON of Conta { saldo, limite }
OkResp(saldo, limite) == [status |-> 200, err |-> "", saldo |-> saldo, limite |-> limite]

(***************************************************************************)
(* post_transaction, handler.rs 125-190.                                   *)
(***************************************************************************)
\* 179-189: the worker answers; the locals of the closure are gone.
Respond(p, r) ==
    /\ resp' = [resp EXCEPT ![p] = r]
    /\ conta' = [conta EXCEPT ![p] = NoConta]
    /\ pc' = [pc EXCEPT ![p] = "done"]

\* 131-149: extraction and validation, up to the hand-over to web::block.
PostReceive(p, id, payload) ==
    /\ pc[p] \in {"idle", "done"}
    /\ nposts < MaxPosts
    /\ nposts' = nposts + 1
    /\ IF Validate(payload) # "ok"
       THEN /\ Respond(p, ErrResp(422, Validate(payload)))
            /\ req' = [req EXCEPT ![p] = Unhandled(id, payload)]
       ELSE IF Overflows(SignedValor(payload)) /\ overflowChecks
       THEN \* 144: attempt to multiply with overflow; the handler panics
            \* and produces no response
            /\ Respond(p, ErrResp(0, "panic144"))
            /\ req' = [req EXCEPT ![p] = Unhandled(id, payload)]
       ELSE /\ resp' = [resp EXCEPT ![p] = NoResp]
            /\ conta' = conta
            /\ req' = [req EXCEPT ![p] =
                         [id |-> id, payload |-> payload,
                          descricao |-> payload.descricao[1],
                          valor |-> Wrap(SignedValor(payload))]]
            /\ pc' = [pc EXCEPT ![p] = "begin"]
    /\ UNCHANGED <<overflowChecks, accounts, transactions, rowLock, txw, rd, extrato, clock, posted>>

\* A rollback that leaves the UPDATE of the balance in place, as if the
\* statement had been committed on its own.
RollbackKeepsUpdate(p) ==
    /\ txw' = [txw EXCEPT ![p] = NoTxw]
    /\ rowLock' = [a \in KnownIds |-> IF rowLock[a] = p THEN NoProc ELSE rowLock[a]]
    /\ accounts' = IF txw[p].balance = <<>> THEN accounts
                   ELSE [accounts EXCEPT ![req[p].id].balance = txw[p].balance[1]]
    /\ UNCHANGED <<transactions, posted>>

\* Dropping the postgres Transaction without commit: ROLLBACK. The uncommitted
\* writes are discarded and the row lock is released.
Released(p) == [a \in KnownIds |-> IF rowLock[a] = p THEN NoProc ELSE rowLock[a]]

\* A rollback that discards the writes and keeps the row lock, as if only
\* COMMIT released it.
RollbackKeepsLock(p) ==
    /\ txw' = [txw EXCEPT ![p] = NoTxw]
    /\ rowLock' = rowLock
    /\ UNCHANGED <<accounts, transactions, posted>>

Rollback(p) ==
    /\ txw' = [txw EXCEPT ![p] = NoTxw]
    /\ rowLock' = Released(p)
    /\ UNCHANGED <<accounts, transactions, posted>>

\* 151-152: db.get() and conn.transaction() (BEGIN).
Begin(p) ==
    /\ pc[p] = "begin"
    /\ txw' = [txw EXCEPT ![p] = [open |-> TRUE, balance |-> <<>>, rows |-> <<>>]]
    /\ pc' = [pc EXCEPT ![p] = "select"]
    /\ UNCHANGED <<overflowChecks, accounts, transactions, rowLock, req, conta,
                   resp, rd, extrato, clock, nposts, posted>>

\* The same read without FOR UPDATE: it neither waits for nor takes the lock.
SelectNoLock(p) ==
    /\ pc[p] = "select"
    /\ LET id == req[p].id IN
       IF id \in DOMAIN accounts
       THEN conta' = [conta EXCEPT ![p] =
                        [found |-> TRUE, read |-> accounts[id].balance,
                         limite |-> accounts[id].credit, saldo |-> 0]]
       ELSE conta' = [conta EXCEPT ![p] = NoConta]
    /\ pc' = [pc EXCEPT ![p] = "check"]
    /\ UNCHANGED <<overflowChecks, accounts, transactions, rowLock, req, txw, resp,
                   rd, extrato, clock, nposts, posted>>

\* The locking read with a lock on the whole table instead of the row: it
\* waits while any row of accounts is locked.
SelectTableLock(p) ==
    /\ pc[p] = "select"
    /\ \A a \in KnownIds : rowLock[a] = NoProc
    /\ LET id == req[p].id IN
       IF id \in DOMAIN accounts
       THEN /\ rowLock' = [rowLock EXCEPT ![id] = p]
            /\ conta' = [conta EXCEPT ![p] =
                           [found |-> TRUE, read |-> accounts[id].balance,
                            limite |-> accounts[id].credit, saldo |-> 0]]
       ELSE /\ rowLock' = rowLock
            /\ conta' = [conta EXCEPT ![p] = NoConta]
    /\ pc' = [pc EXCEPT ![p] = "check"]
    /\ UNCHANGED <<overflowChecks, accounts, transactions, req, txw, resp, rd,
                   extrato, clock, nposts, posted>>

\* 153-161: SELECT balance, credit FROM accounts WHERE id=$1 FOR UPDATE. The
\* statement waits while another transaction holds the row's lock and reads
\* the committed row once it has the lock. No row: no lock, empty result.
SelectForUpdate(p) ==
    /\ pc[p] = "select"
    /\ LET id == req[p].id IN
       IF id \in DOMAIN accounts
       THEN /\ rowLock[id] = NoProc
            /\ rowLock' = [rowLock EXCEPT ![id] = p]
            /\ conta' = [conta EXCEPT ![p] =
                           [found |-> TRUE, read |-> accounts[id].balance,
                            limite |-> accounts[id].credit, saldo |-> 0]]
       ELSE /\ rowLock' = rowLock
            /\ conta' = [conta EXCEPT ![p] = NoConta]
    /\ pc' = [pc EXCEPT ![p] = "check"]
    /\ UNCHANGED <<overflowChecks, accounts, transactions, req, txw, resp, rd,
                   extrato, clock, nposts, posted>>

\* The check with the locking read run outside the database transaction: the
\* row lock is gone once the row is read, before the check and the writes.
CheckReleasesLock(p) ==
    /\ pc[p] = "check"
    /\ LET saldo == NewSaldo(conta[p].read, req[p].valor)
           err == IF ~conta[p].found THEN "404"
                  ELSE IF overflowChecks
                          /\ CheckOverflows(conta[p].read, req[p].valor, conta[p].limite)
                       THEN "panic168"
                  ELSE IF LimitExceeded(saldo, conta[p].limite) THEN "422"
                  ELSE "ok"
       IN
       IF err # "ok"
       THEN /\ Rollback(p)
            /\ Respond(p, ErrResp(ErrStatus(err), err))
       ELSE /\ conta' = [conta EXCEPT ![p].saldo = saldo]
            /\ pc' = [pc EXCEPT ![p] = "update"]
            /\ rowLock' = Released(p)
            /\ UNCHANGED <<resp, txw, accounts, transactions, posted>>
    /\ UNCHANGED <<overflowChecks, req, rd, extrato, clock, nposts>>

\* 162-171: the empty-result test, the new saldo and the limit check. Err(..)
\* leaves the closure, which drops the open Transaction: ROLLBACK. A panic of
\* the closure does the same while unwinding; web::block reports it as an error
\* whose text is not "404".
Check(p) ==
    /\ pc[p] = "check"
    /\ LET saldo == NewSaldo(conta[p].read, req[p].valor)
           err == IF ~conta[p].found THEN "404"
                  ELSE IF overflowChecks
                          /\ CheckOverflows(conta[p].read, req[p].valor, conta[p].limite)
                       THEN "panic168"
                  ELSE IF LimitExceeded(saldo, conta[p].limite) THEN "422"
                  ELSE "ok"
       IN
       IF err # "ok"
       THEN /\ Rollback(p)
            /\ Respond(p, ErrResp(ErrStatus(err), err))
       ELSE /\ conta' = [conta EXCEPT ![p].saldo = saldo]
            /\ pc' = [pc EXCEPT ![p] = "update"]
            /\ UNCHANGED <<resp, txw, accounts, transactions, rowLock, posted>>
    /\ UNCHANGED <<overflowChecks, req, rd, extrato, clock, nposts>>

\* The UPDATE run outside the database transaction: committed at once.
UpdateAutocommit(p) ==
    /\ pc[p] = "update"
    /\ accounts' = [accounts EXCEPT ![req[p].id].balance = conta[p].saldo]
    /\ pc' = [pc EXCEPT ![p] = "insert"]
    /\ UNCHANGED <<overflowChecks, transactions, rowLock, req, conta, txw,
                   resp, rd, extrato, clock, nposts, posted>>

\* 172-173: UPDATE accounts SET balance=$1 WHERE id=$2, uncommitted.
Update(p) ==
    /\ pc[p] = "update"
    /\ txw' = [txw EXCEPT ![p].balance = <<conta[p].saldo>>]
    /\ pc' = [pc EXCEPT ![p] = "insert"]
    /\ UNCHANGED <<overflowChecks, accounts, transactions, rowLock, req, conta,
                   resp, rd, extrato, clock, nposts, posted>>

\* 174-175: the row inserted into transactions.
NewRow(r) ==
    [account_id |-> r.id, amount |-> r.payload.valor,
     transaction_type |-> r.payload.tipo, details |-> r.descricao]

\* 174-175: INSERT INTO transactions (...), uncommitted.
Insert(p) ==
    /\ pc[p] = "insert"
    /\ txw' = [txw EXCEPT ![p].rows = Append(@, NewRow(req[p]))]
    /\ pc' = [pc EXCEPT ![p] = "commit"]
    /\ UNCHANGED <<overflowChecks, accounts, transactions, rowLock, req, conta,
                   resp, rd, extrato, clock, nposts, posted>>

\* The accounts table after the COMMIT of a transaction's writes.
Committed(id, w) ==
    IF w.balance = <<>> THEN accounts
    ELSE [accounts EXCEPT ![id].balance = w.balance[1]]

\* A created_at that keeps the time of day only and starts again at every
\* second tick of the clock.
StampedTimeOfDay(rows, t) ==
    [i \in 1..Len(rows) |->
        [account_id |-> rows[i].account_id, amount |-> rows[i].amount,
         transaction_type |-> rows[i].transaction_type,
         details |-> rows[i].details, created_at |-> t % 2]]

\* Column created_at, which the INSERT of 174 leaves to the store: the time
\* of the store's clock when the row is committed.
Stamped(rows, t) ==
    [i \in 1..Len(rows) |->
        [account_id |-> rows[i].account_id, amount |-> rows[i].amount,
         transaction_type |-> rows[i].transaction_type,
         details |-> rows[i].details, created_at |-> t]]

\* A commit that answers with the balance read at 153-161 instead of the
\* new saldo of 168.
CommitReturnsRead(p) ==
    /\ pc[p] = "commit"
    /\ \E d \in {0, 1} : clock' = clock + d
    /\ accounts' = Committed(req[p].id, txw[p])
    /\ transactions' = transactions \o Stamped(txw[p].rows, clock')
    /\ rowLock' = Released(p)
    /\ txw' = [txw EXCEPT ![p] = NoTxw]
    /\ posted' = [posted EXCEPT ![req[p].id] =
                     [n |-> @.n + 1, sum |-> @.sum + SignedValor(req[p].payload)]]
    /\ Respond(p, OkResp(conta[p].read, conta[p].limite))
    /\ UNCHANGED <<overflowChecks, req, rd, extrato, nposts>>

\* 176-180: COMMIT makes the writes visible at once and releases the lock;
\* the closure returns Ok(Conta { saldo, limite }), answered as 200. The
\* store's clock may have advanced since the previous commit.
Commit(p) ==
    /\ pc[p] = "commit"
    /\ \E d \in {0, 1} : clock' = clock + d
    /\ accounts' = Committed(req[p].id, txw[p])
    /\ transactions' = transactions \o Stamped(txw[p].rows, clock')
    /\ rowLock' = Released(p)
    /\ txw' = [txw EXCEPT ![p] = NoTxw]
    /\ posted' = [posted EXCEPT ![req[p].id] =
                     [n |-> @.n + 1, sum |-> @.sum + SignedValor(req[p].payload)]]
    /\ Respond(p, OkResp(conta[p].saldo, conta[p].limite))
    /\ UNCHANGED <<overflowChecks, req, rd, extrato, nposts>>

\* 150-178: the next statement of the closure of post p, when the store
\* serves it.
PostStep(p) ==
    \/ Begin(p)
    \/ SelectForUpdate(p)
    \/ Check(p)
    \/ Update(p)
    \/ Insert(p)
    \/ Commit(p)

\* 151, 152, 155, 173, 175, 176: the store fails and unwrap() panics. The
\* Transaction is dropped while unwinding (ROLLBACK); a failed COMMIT leaves
\* the transaction aborted.
StoreFail(p) ==
    /\ pc[p] \in {"begin", "select", "update", "insert", "commit"}
    /\ Rollback(p)
    /\ Respond(p, ErrResp(ErrStatus(PanicAt[pc[p]]), PanicAt[pc[p]]))
    /\ UNCHANGED <<overflowChecks, req, rd, extrato, clock, nposts>>

(***************************************************************************)
(* get_balance, handler.rs 74-123.                                         *)
(***************************************************************************)
\* 79-80: a statement request arrives.
ReadReceive(r, id) ==
    /\ pc[r] \in {"idle", "done"}
    /\ rd' = [rd EXCEPT ![r] = [id |-> id, conta |-> <<>>]]
    /\ extrato' = [extrato EXCEPT ![r] = NoExtrato]
    /\ pc' = [pc EXCEPT ![r] = "account"]
    /\ UNCHANGED <<overflowChecks, accounts, transactions, rowLock, req, conta,
                   txw, resp, clock, nposts, posted>>

\* 83-92: ACCOUNT_SQL, a statement of its own that reads the committed row;
\* no row: Err(404), answered as 404 (115-121).
ReadAccount(r) ==
    /\ pc[r] = "account"
    /\ IF rd[r].id \in DOMAIN accounts
       THEN /\ rd' = [rd EXCEPT ![r].conta = <<accounts[rd[r].id]>>]
            /\ pc' = [pc EXCEPT ![r] = "transactions"]
            /\ extrato' = extrato
       ELSE /\ rd' = rd
            /\ pc' = [pc EXCEPT ![r] = "done"]
            /\ extrato' = [extrato EXCEPT ![r].status = ErrStatus("404")]
    /\ UNCHANGED <<overflowChecks, accounts, transactions, rowLock, req, conta,
                   txw, resp, clock, nposts, posted>>

\* LIMIT 10 of LAST_TRANSACTION_SQL, handler.rs 71
StatementLimit == 10

\* The positions in table transactions of the rows of account id.
RowsOf(id) == {i \in 1..Len(transactions) : transactions[i].account_id = id}

\* The orders ORDER BY created_at DESC allows for the rows at positions S:
\* rows of equal created_at come in any order.
OrderedDesc(S) ==
    {q \in [1..Cardinality(S) -> S] :
        /\ \A i, j \in 1..Cardinality(S) : i # j => q[i] # q[j]
        /\ \A i, j \in 1..Cardinality(S) :
              i < j => transactions[q[i]].created_at >= transactions[q[j]].created_at}

Min(a, b) == IF a < b THEN a ELSE b

\* 97-102: a row of transactions as Transacao
Transacao(row) ==
    [valor |-> row.amount, tipo |-> row.transaction_type,
     descricao |-> row.details, realizada_em |-> row.created_at]

\* 93-114: LAST_TRANSACTION_SQL, a second statement that reads the committed
\* rows of the account, and the 200 response with the Extrato.
ReadTransactions(r) ==
    /\ pc[r] = "transactions"
    /\ \E q \in OrderedDesc(RowsOf(rd[r].id)) :
          extrato' = [extrato EXCEPT ![r] =
             [status |-> 200, total |-> rd[r].conta[1].balance,
              limite |-> rd[r].conta[1].credit,
              ultimas_transacoes |->
                 [i \in 1..Min(StatementLimit, Len(q)) |-> Transacao(transactions[q[i]])]]]
    /\ pc' = [pc EXCEPT ![r] = "done"]
    /\ UNCHANGED <<overflowChecks, accounts, transactions, rowLock, req, conta,
                   txw, resp, rd, clock, nposts, posted>>

\* 82, 85, 95: the store fails and unwrap() panics inside web::block, which
\* reports an error whose text is not "404" (115-121).
ReadFail(r) ==
    /\ pc[r] \in {"account", "transactions"}
    /\ extrato' = [extrato EXCEPT ![r].status = ErrStatus("panic")]
    /\ pc' = [pc EXCEPT ![r] = "done"]
    /\ UNCHANGED <<overflowChecks, accounts, transactions, rowLock, req, conta,
                   txw, resp, rd, clock, nposts, posted>>

(***************************************************************************)
(* The service: workers handle requests concurrently.                      *)
(***************************************************************************)
PostNext(P, R) ==
    \/ \E p \in P, r \in R : PostReceive(p, r.id, r.payload)
    \/ \E p \in P : Begin(p)
    \/ \E p \in P : SelectForUpdate(p)
    \/ \E p \in P : Check(p)
    \/ \E p \in P : Update(p)
    \/ \E p \in P : Insert(p)
    \/ \E p \in P : Commit(p)
    \/ \E p \in P : StoreFail(p)

ReadNext ==
    \/ \E r \in Readers, id \in Ids : ReadReceive(r, id)
    \/ \E r \in Readers : ReadAccount(r)
    \/ \E r \in Readers : ReadTransactions(r)
    \/ \E r \in Readers : ReadFail(r)

\* The whole service: every worker, requests of every shape. The
\* specifications below are the parts of it that are explored exhaustively.
Next == PostNext(Posters, Requests) \/ ReadNext
Spec == Init /\ [][Next]_vars

\* Two workers post plain requests concurrently.
NextPost == PostNext(Posters, PlainRequests)
SpecPost == Init /\ [][NextPost]_vars

\* Fair scheduling. Every closure runs on a thread of its own (web::block),
\* so a statement that can run does run; the store grants a row lock that is
\* released again and again to each waiter in turn.
PostFairness ==
    \A p \in Posters :
        /\ WF_vars(Begin(p) \/ Check(p) \/ Update(p) \/ Insert(p) \/ Commit(p))
        /\ SF_vars(SelectForUpdate(p))

\* Credits and debits of 2 on every id: on account 1 a first debit is
\* committed and a second one is refused by the limit check.
FairRequests ==
    [id : Ids,
     payload : [valor : {2}, tipo : {"c", "d"}, descricao : {Some(Ascii(10))}]]

\* Two workers post these requests concurrently under fair scheduling.
NextFair == PostNext(Posters, FairRequests)
SpecPostFair == Init /\ [][NextFair]_vars /\ PostFairness

\* One worker posts requests of every shape, one after another.
NextInput == PostNext({"p1"}, InputRequests)
SpecInput == Init /\ [][NextInput]_vars

\* One worker posts plain requests while another reads statements.
NextStatement == PostNext({"p1"}, PlainRequests) \/ ReadNext
SpecStatement == Init /\ [][NextStatement]_vars

(***************************************************************************)
(* Properties.                                                             *)
(***************************************************************************)
\* C1: every committed account row satisfies balance + credit >= 0, whatever
\* posts ran and however they interleaved.
BalanceWithinLimit ==
    \A a \in DOMAIN accounts : accounts[a].balance + accounts[a].credit >= 0

\* A debit was committed that left account 1 exactly at its limit, and
\* another debit on account 1 was refused by the limit check.
BalanceWithinLimitWitness ==
    /\ posted[1].n = 1
    /\ accounts[1].balance = -accounts[1].credit
    /\ \E p \in Posters :
          /\ resp[p] = ErrResp(422, "422")
          /\ req[p].id = 1
          /\ req[p].payload.tipo = "d"

\* No post is between its arrival and its response.
Quiescent == \A p \in Posters : pc[p] \in {"idle", "done"}

\* Post p has read the row of its account under the lock and not yet finished.
InCriticalSection(p) ==
    pc[p] \in {"check", "update", "insert", "commit"} /\ conta[p].found

\* C2: no lost update. The balance a post read under the lock is still the
\* committed one until the post finishes, so the committed balances are those
\* of the successful posts run one after another in lock order; and once all
\* concurrent posts have finished, each committed balance is the initial
\* balance plus the sum of the signed amounts of the posts answered 200.
NoLostUpdate ==
    /\ \A p \in Posters :
          InCriticalSection(p) => conta[p].read = accounts[req[p].id].balance
    /\ \A p, q \in Posters :
          (p # q /\ InCriticalSection(p) /\ InCriticalSection(q))
             => req[p].id # req[q].id
    /\ Quiescent =>
          \A a \in KnownIds :
             accounts[a].balance = InitAccounts[a].balance + posted[a].sum

\* Two workers each posted a credit of 1 on account 1, both were answered 200
\* and the balance went from 0 to 2.
NoLostUpdateWitness ==
    /\ \A p \in Posters : resp[p].status = 200
    /\ posted[1] = [n |-> 2, sum |-> 2]
    /\ accounts[1].balance = 2
    /\ \A i \in 1..Len(transactions) :
          transactions[i].transaction_type = "c" /\ transactions[i].amount = 1

\* The amount of a row of transactions, signed by its type.
SignedAmount(row) ==
    IF row.transaction_type = "c" THEN row.amount ELSE -row.amount

RECURSIVE SumRows(_, _)
SumRows(rows, id) ==
    IF rows = <<>> THEN 0
    ELSE (IF Head(rows).account_id = id THEN SignedAmount(Head(rows)) ELSE 0)
         + SumRows(Tail(rows), id)

\* C3: in every committed state each account has exactly one transaction row
\* per post answered 200, and its balance is the initial balance changed by
\* exactly the rows committed so far: a new balance is never visible without
\* its row, nor a row without its balance.
BalanceAndRowTogether ==
    \A a \in KnownIds :
        /\ Cardinality(RowsOf(a)) = posted[a].n
        /\ accounts[a].balance = InitAccounts[a].balance + SumRows(transactions, a)

\* One post on account 1 is committed (balance and row) while a post on
\* account 2 has run its UPDATE and INSERT without committing: neither of
\* the two writes is visible.
BalanceAndRowTogetherWitness ==
    /\ posted[1].n = 1
    /\ Cardinality(RowsOf(1)) = 1
    /\ accounts[1].balance # InitAccounts[1].balance
    /\ \E q \in Posters :
          /\ pc[q] = "commit"
          /\ req[q].id = 2
          /\ txw[q].balance # <<>>
          /\ txw[q].balance[1] # accounts[2].balance
          /\ Len(txw[q].rows) = 1
          /\ RowsOf(2) = {}

\* This step is the arrival at worker p of the request that req'[p] holds.
Receives(p) == PostReceive(p, req'[p].id, req'[p].payload)

\* Worker p finishes a request in this step: it answers the request it was
\* handling, or a request that arrives is answered at once.
Finishes(p) == pc'[p] = "done" /\ (pc[p] # "done" \/ Receives(p))

\* C4: a post that is not answered 200 ends with its database transaction
\* aborted (no pending write, no lock) and the committed balances and
\* transaction rows as they were; the committed store changes only in the
\* COMMIT step of a post, which is answered 200.
NoPartialWrite ==
    [][ /\ \A p \in Posters :
              (Finishes(p) /\ resp'[p].status # 200)
                 => /\ accounts' = accounts
                    /\ transactions' = transactions
                    /\ txw'[p] = NoTxw
                    /\ \A a \in KnownIds : rowLock'[a] # p
        /\ (accounts' # accounts \/ transactions' # transactions)
              => \E p \in Posters : pc[p] = "commit" /\ resp'[p].status = 200
      ]_vars

\* One post failed at its COMMIT and another at its INSERT, after its UPDATE,
\* and the store is as it was at the start.
NoPartialWriteWitness ==
    /\ resp["p1"].err = "panic176"
    /\ resp["p2"].err = "panic175"
    /\ accounts = InitAccounts
    /\ transactions = <<>>

\* Post p leaves its limit check (162-171) in this step, having found its row.
Decides(p) == pc[p] = "check" /\ pc'[p] # "check" /\ conta[p].found

\* The committed store is left as it is.
StoreUntouched ==
    accounts' = accounts /\ transactions' = transactions /\ rowLock' = rowLock

\* C5: concurrent debits. A debit that gets the lock passes the limit check
\* if and only if the balance committed by the posts before it, minus its
\* amount, plus the credit limit is >= 0; its commit lowers the committed
\* balance by exactly its amount; a debit that does not fit is refused with
\* 422 and changes nothing.
DebitsThatFit ==
    [][ \A p \in Posters :
          LET id == req[p].id
              amount == req[p].payload.valor
          IN
          /\ (Decides(p) /\ req[p].payload.tipo = "d")
                => IF accounts[id].balance - amount + accounts[id].credit >= 0
                   THEN pc'[p] = "update"
                   ELSE /\ Finishes(p)
                        /\ resp'[p].status = 422
                        /\ accounts' = accounts
                        /\ transactions' = transactions
          /\ (pc[p] = "commit" /\ resp'[p].status = 200 /\ req[p].payload.tipo = "d")
                => accounts'[id].balance = accounts[id].balance - amount
      ]_vars

\* Two workers posted debits of 2 and 1 on account 1 (balance 0, limit 2):
\* one is committed, the other is refused and the balance is -2.
DebitsThatFitWitness ==
    /\ \A p \in Posters :
          pc[p] = "done" /\ req[p].id = 1 /\ req[p].payload.tipo = "d"
    /\ req["p1"].payload.valor = 2 /\ resp["p1"].status = 200
    /\ req["p2"].payload.valor = 1 /\ resp["p2"] = ErrResp(422, "422")
    /\ accounts[1].balance = -2
    /\ posted[1].n = 1

\* A body that the specification accepts: a description of 1 to 10
\* characters, a kind of "c" or "d" and a positive amount.
SpecValid(payload) ==
    /\ payload.descricao # None
    /\ CharCount(payload.descricao[1]) \in 1..DescricaoLimit
    /\ payload.tipo \in {"c", "d"}
    /\ payload.valor > 0

\* C6: a post with a valid body on an existing account succeeds if and only
\* if balance + signed amount + credit limit >= 0 for the balance read under
\* the lock, and is refused with 422 otherwise.
LimitDecides ==
    [][ \A p \in Posters :
          (Decides(p) /\ SpecValid(req[p].payload))
             => IF conta[p].read + SignedValor(req[p].payload) + conta[p].limite >= 0
                THEN pc'[p] = "update"
                ELSE Finishes(p) /\ resp'[p].status = 422 /\ accounts' = accounts
      ]_vars

\* The bodies of the 422 responses of the validation, 136, 140, 146.
ValidationBodies ==
    {"descricao nulo", "descricao vazio ou maior que 10", "Error"}

\* Worker p answers 422 from the validation, before the store is touched: no
\* database transaction is opened, no lock is taken, nothing is written.
RejectedUpFront(p) ==
    /\ Finishes(p)
    /\ resp'[p].status = 422
    /\ resp'[p].err \in ValidationBodies
    /\ StoreUntouched
    /\ txw' = txw

\* C7: a post whose amount is zero or negative is refused with 422 and
\* changes nothing; so a committed debit never raises the balance and a
\* committed credit never lowers it.
NonPositiveRejected ==
    [][ \A p \in Posters :
          /\ (Receives(p) /\ req'[p].payload.valor <= 0) => RejectedUpFront(p)
          /\ (pc[p] = "commit" /\ resp'[p].status = 200)
                => LET id == req[p].id IN
                   IF req[p].payload.tipo = "d"
                   THEN accounts'[id].balance <= accounts[id].balance
                   ELSE accounts'[id].balance >= accounts[id].balance
      ]_vars

\* A description that the specification refuses: missing, empty or longer
\* than 10 characters.
BadDescricao(d) ==
    d = None \/ CharCount(d[1]) = 0 \/ CharCount(d[1]) > DescricaoLimit

\* C8: a post whose description is missing, empty or longer than 10
\* characters is answered 422 by the validation, whatever its amount, kind and
\* account id, before the store is touched.
DescricaoValidated ==
    [][ \A p \in Posters :
          (Receives(p) /\ BadDescricao(req'[p].payload.descricao))
             => /\ RejectedUpFront(p)
                /\ resp'[p].err \in {"descricao nulo", "descricao vazio ou maior que 10"}
      ]_vars

\* A first post was committed on account 1; a second one, of 11 characters,
\* was answered 422 for its description and the store holds the first post
\* alone.
DescricaoValidatedWitness ==
    /\ req["p1"].payload.descricao = Some(Ascii(11))
    /\ req["p1"].payload.tipo = "c"
    /\ req["p1"].payload.valor = 1
    /\ req["p1"].id = 1
    /\ resp["p1"] = ErrResp(422, "descricao vazio ou maior que 10")
    /\ nposts = 2
    /\ posted[1].n = 1
    /\ Len(transactions) = 1
    /\ rowLock = [a \in KnownIds |-> NoProc]

\* C9: a post whose kind is neither "c" nor "d" is answered 422 by the
\* validation before the store is touched.
TipoValidated ==
    [][ \A p \in Posters :
          (Receives(p) /\ req'[p].payload.tipo \notin {"c", "d"})
             => RejectedUpFront(p)
      ]_vars

\* A first post was committed on account 1; a second one with a valid
\* description and amount was answered 422 for its kind and the store holds
\* the first post alone.
TipoValidatedWitness ==
    /\ req["p1"].payload = [valor |-> 1, tipo |-> "x", descricao |-> Some(Ascii(10))]
    /\ req["p1"].id = 1
    /\ resp["p1"] = ErrResp(422, "Error")
    /\ nposts = 2
    /\ posted[1].n = 1
    /\ Len(transactions) = 1
    /\ rowLock = [a \in KnownIds |-> NoProc]

\* C10: for an id without a row, a statement read is answered 404 and a post
\* with an otherwise valid body is answered 404; neither creates an account
\* or a transaction row.
UnknownIdNotFound ==
    [][ /\ \A r \in Readers :
              (ReadAccount(r) /\ rd[r].id \notin DOMAIN accounts)
                 => extrato'[r].status = 404
        /\ \A p \in Posters :
              /\ (Receives(p) /\ req'[p].id \notin DOMAIN accounts
                    /\ SpecValid(req'[p].payload))
                    => pc'[p] = "begin"
              /\ (Check(p) /\ req[p].id \notin DOMAIN accounts)
                    => Finishes(p) /\ resp'[p].status = 404
              /\ (pc[p] \notin {"idle", "done"} /\ pc'[p] # pc[p]
                    /\ req[p].id \notin DOMAIN accounts)
                    => accounts' = accounts /\ transactions' = transactions
        /\ DOMAIN accounts' = DOMAIN accounts
      ]_vars

\* C11: the row appended by a post answered 200 holds the signed amount: the
\* request's amount for a credit and its negation for a debit, which is the
\* change the post applied to the committed balance.
StoredAmountSigned ==
    [][ \A p \in Posters :
          (pc[p] = "commit" /\ resp'[p].status = 200)
             => LET id == req[p].id
                    row == transactions'[Len(transactions')]
                IN
                /\ Len(transactions') = Len(transactions) + 1
                /\ row.account_id = id
                /\ row.amount = IF req[p].payload.tipo = "c"
                                THEN req[p].payload.valor
                                ELSE -req[p].payload.valor
                /\ row.amount = accounts'[id].balance - accounts[id].balance
      ]_vars

\* C12: a post is answered 200 only by its COMMIT, and the answer holds the
\* balance that this COMMIT makes the committed one, which is the balance read
\* under the lock (still the committed one) plus the signed amount, and the
\* credit limit of the account, whatever other posts run concurrently.
ReturnsCommittedBalance ==
    [][ \A p \in Posters :
          /\ (Finishes(p) /\ resp'[p].status = 200) => pc[p] = "commit"
          /\ (pc[p] = "commit" /\ resp'[p].status = 200)
                => LET id == req[p].id IN
                   /\ resp'[p].saldo = accounts'[id].balance
                   /\ resp'[p].saldo = conta[p].read + SignedValor(req[p].payload)
                   /\ resp'[p].saldo = accounts[id].balance + SignedValor(req[p].payload)
                   /\ resp'[p].limite = accounts'[id].credit
      ]_vars

\* Two workers posted on account 1 (balance 0): the credit of 2 was answered
\* with balance 2 and the debit of 1, which got the lock after it, with
\* balance 1, the committed balance.
ReturnsCommittedBalanceWitness ==
    /\ \A p \in Posters : pc[p] = "done" /\ req[p].id = 1
    /\ req["p1"].payload.tipo = "c" /\ req["p1"].payload.valor = 2
    /\ req["p2"].payload.tipo = "d" /\ req["p2"].payload.valor = 1
    /\ resp["p1"] = OkResp(2, 2)
    /\ resp["p2"] = OkResp(1, 2)
    /\ accounts[1].balance = 1

\* The statuses of the outcomes NotFound, InvariantViolation and
\* ValidationError, 136, 140, 146, 184, 185.
ClientStatuses == {404, 422}

\* C13: a post whose store access fails (connection, BEGIN, locking read,
\* UPDATE, INSERT or COMMIT) is answered with a server-side failure, a status
\* that is none of those of NotFound, InvariantViolation and ValidationError.
StoreErrorDistinct ==
    [][ \A p \in Posters :
          StoreFail(p)
             => /\ resp'[p].status \notin ClientStatuses
                /\ resp'[p].status >= 500
      ]_vars

\* Post p is inside web::block (150-178), between its hand-over and its answer.
InProgress(p) == pc[p] \in {"begin", "select", "check", "update", "insert", "commit"}

\* Post p holds the lock of the row of its account.
HoldsLock(p) == req[p].id \in KnownIds /\ rowLock[req[p].id] = p

SignedTransacao(t) == IF t.tipo = "c" THEN t.valor ELSE -t.valor

RECURSIVE SumTransacoes(_)
SumTransacoes(ts) ==
    IF ts = <<>> THEN 0
    ELSE SignedTransacao(Head(ts)) + SumTransacoes(Tail(ts))

\* C15: a statement answered 200 holds the balance and the transaction list
\* of one committed state of the account. The committed states of an account
\* are its initial balance with no row and, after each commit, the balance
\* changed by the committed rows; so, as long as the list is not cut at 10
\* rows, the returned balance is the initial balance changed by exactly the
\* returned transactions.
StatementSnapshot ==
    \A r \in Readers :
        (/\ pc[r] = "done"
         /\ extrato[r].status = 200
         /\ Len(extrato[r].ultimas_transacoes) < StatementLimit)
        => extrato[r].total =
              InitAccounts[rd[r].id].balance
                 + SumTransacoes(extrato[r].ultimas_transacoes)

\* Post p writes in this step: its UPDATE or its INSERT joins the pending
\* writes of its database transaction.
Writes(p) ==
    \/ txw'[p].balance # <<>> /\ txw'[p].balance # txw[p].balance
    \/ Len(txw'[p].rows) > Len(txw[p].rows)

\* C16: the limit check of a post runs once, under the row lock and before
\* any write. The positions of a post are passed in order, so that the check
\* is left once per attempt and the UPDATE is reached from the check only; the
\* check runs with the lock held, no write pending, on the committed balance;
\* a post writes only with the lock held and a new saldo that passed the check;
\* the committed balance changes only by the COMMIT of the post that holds the
\* lock; and while a post is between its locking read and its end, no other
\* post on the same account reads the row, has a pending write or commits.
CheckedOnceUnderLock ==
    [][ \A p \in Posters :
          LET id == req[p].id IN
          /\ pc'[p] # pc[p] =>
                /\ pc'[p] = "begin" => pc[p] \in {"idle", "done"}
                /\ pc'[p] = "select" => pc[p] = "begin"
                /\ pc'[p] = "check" => pc[p] = "select"
                /\ pc[p] = "check" => pc'[p] \in {"update", "done"}
                /\ pc'[p] = "update" => pc[p] = "check"
                /\ pc'[p] = "insert" => pc[p] = "update"
                /\ pc'[p] = "commit" => pc[p] = "insert"
          /\ Decides(p) =>
                /\ rowLock[id] = p
                /\ txw[p].balance = <<>> /\ txw[p].rows = <<>>
                /\ conta[p].read = accounts[id].balance
                /\ pc'[p] = "update" =>
                      /\ conta'[p].saldo = accounts[id].balance + req[p].valor
                      /\ conta'[p].saldo + conta'[p].limite >= 0
          /\ Writes(p) =>
                /\ pc[p] \in {"update", "insert"}
                /\ rowLock[id] = p
                /\ conta[p].saldo = accounts[id].balance + req[p].valor
                /\ conta[p].saldo + accounts[id].credit >= 0
          /\ (pc[p] = "commit" /\ accounts' # accounts) => rowLock[id] = p
          /\ InCriticalSection(p) =>
                \A q \in Posters \ {p} :
                   req[q].id = id =>
                      /\ ~(pc[q] = "select" /\ pc'[q] = "check")
                      /\ ~Writes(q)
                      /\ txw[q].balance = <<>> /\ txw[q].rows = <<>>
                      /\ ~(pc[q] = "commit" /\ pc'[q] = "done")
      ]_vars

\* A post on account 1 has passed its check under the lock and has not yet
\* written, while another post on account 1 waits at its locking read.
CheckedOnceUnderLockWitness ==
    /\ pc["p1"] = "update" /\ req["p1"].id = 1 /\ rowLock[1] = "p1"
    /\ txw["p1"].balance = <<>>
    /\ conta["p1"].saldo # conta["p1"].read
    /\ pc["p2"] = "select" /\ req["p2"].id = 1
    /\ ~ENABLED SelectForUpdate("p2")

\* C17: every post releases what it took. A post that is not in progress
\* holds no row lock and has no open database transaction (its connection is
\* back in the pool), whether it ended by COMMIT, by Err(404), by Err(422) or
\* by a store failure; some post in progress can always take a step (no
\* deadlock); and under fair scheduling every post in progress is answered,
\* a post that waits at its locking read getting past it.
LockAlwaysReleased ==
    /\ [](\A p \in Posters :
            ~InProgress(p) =>
               /\ \A a \in KnownIds : rowLock[a] # p
               /\ txw[p] = NoTxw)
    /\ []((\E p \in Posters : InProgress(p))
             => \E p \in Posters : InProgress(p) /\ ENABLED PostStep(p))
    /\ \A p \in Posters : InProgress(p) ~> (pc[p] = "done")
    /\ \A p \in Posters :
          (pc[p] = "select" /\ ~ENABLED SelectForUpdate(p))
             ~> (pc[p] \in {"check", "done"})

\* A post on account 1 ended by a store failure at its INSERT, with the lock
\* held and the UPDATE pending, and a post on the same account was then
\* answered 200: no lock is held and no transaction is open.
LockAlwaysReleasedWitness ==
    /\ resp["p1"].err = "panic175" /\ req["p1"].id = 1 /\ pc["p1"] = "done"
    /\ resp["p2"].status = 200 /\ req["p2"].id = 1 /\ pc["p2"] = "done"
    /\ rowLock = [a \in KnownIds |-> NoProc]
    /\ \A p \in Posters : txw[p] = NoTxw

Latest(S, k) == CHOOSE i \in S : Cardinality({j \in S : j >= i}) = k

\* C19: a statement read answered 200 returns the latest committed rows of
\* its account, newest first: as many as the account has, and exactly the 10
\* latest when it has more than 10.
LastTenNewestFirst ==
    [][ \A r \in Readers :
          (pc[r] = "transactions" /\ extrato'[r].status = 200)
             => LET S == RowsOf(rd[r].id)
                    out == extrato'[r].ultimas_transacoes
                IN
                /\ Len(out) = Min(StatementLimit, Cardinality(S))
                /\ \A k \in 1..Len(out) :
                      out[k] = Transacao(transactions[Latest(S, k)])
      ]_vars

\* The magnitude of the movement that a row of transactions records.
Magnitude(row) == IF row.amount < 0 THEN -row.amount ELSE row.amount

RECURSIVE SumMagnitudes(_, _, _)
SumMagnitudes(rows, id, tipo) ==
    IF rows = <<>> THEN 0
    ELSE (IF Head(rows).account_id = id /\ Head(rows).transaction_type = tipo
          THEN Magnitude(Head(rows)) ELSE 0)
         + SumMagnitudes(Tail(rows), id, tipo)

\* C20: ledger consistency. In every committed state the balance of each
\* account is its initial balance plus the magnitudes of its credit rows minus
\* the magnitudes of its debit rows; and table transactions is append-only:
\* a step adds rows at the end and leaves every existing row as it is.
LedgerConsistent ==
    /\ [](\A a \in KnownIds :
            accounts[a].balance =
               InitAccounts[a].balance
                  + SumMagnitudes(transactions, a, "c")
                  - SumMagnitudes(transactions, a, "d"))
    /\ [][ /\ Len(transactions') >= Len(transactions)
           /\ \A i \in 1..Len(transactions) : transactions'[i] = transactions[i]
         ]_vars

====
